---------------------------- MODULE Spec2Model ----------------------------
(***************************************************************************)
(* The bike shop storefront of src/store.js: the three records it keeps in *)
(* localStorage (cart, user, newsletter subscribers), the operations on    *)
(* them, and the totals calculation.                                       *)
(*                                                                         *)
(* Numbers.  JavaScript numbers are IEEE-754 doubles.                      *)
(*  - Weights are modelled as doubles, bit for bit (the Dbl* operators):   *)
(*    the test totalWeight <= SHIPPING_SMALL_LIMIT picks a shipping tier,  *)
(*    and 0.3, 0.8 and 0.2 are not representable, so the rounding of each  *)
(*    product and sum decides the tier.                                    *)
(*  - Money is modelled exactly, as an integer number of 1/40 rouble.      *)
(*    Every catalogue price is a multiple of 500, so each subtotal is a    *)
(*    multiple of 1/2 and each surcharge a multiple of 1/40; the           *)
(*    percentages divide without remainder.  The last-place rounding of    *)
(*    the surcharge product in a double is not modelled.                   *)
(***************************************************************************)
EXTENDS Integers, Sequences, FiniteSets, TLC

VARIABLES
  storedCart,         \* localStorage[CART_KEY]
  storedUser,         \* localStorage[USER_KEY]
  storedSubscribers,  \* localStorage[SUBSCRIBERS_KEY]
  subscribed,         \* history: every email passed to subscribeEmail so far
  last,               \* the last operation: its name, its outcome, what it returned
  tabs                \* per tab: the cart mutation it is in, between its
                      \* getCart() and its saveCart(), and the cart it read

vars == <<storedCart, storedUser, storedSubscribers, subscribed, last, tabs>>

(***************************************************************************)
(* Bounds of the model.                                                    *)
(***************************************************************************)
MaxCart == 2        \* line items the model lets a cart grow to
MaxQty == 2         \* largest quantity of one line item

(***************************************************************************)
(* Shipping and discount rules (src/store.js:144-150).  The three rates    *)
(* are written in percent.                                                 *)
(***************************************************************************)
SHIPPING_FREE_THRESHOLD == 7000
SHIPPING_SMALL_LIMIT == 3
SHIPPING_MEDIUM_COST == 300
SHIPPING_LARGE_COST == 500
USER_DISCOUNT == 2
SALE_DISCOUNT == 5
COD_SURCHARGE == 5

(***************************************************************************)
(* IEEE-754 doubles, for the weights.  A double is a sign and a magnitude; *)
(* the magnitude is an integer count of 2^-55 (the last place of 0.2, the  *)
(* smallest weight), kept in three limbs of 22 bits, least significant     *)
(* first.  Every weight, product and sum of the model is a multiple of     *)
(* 2^-55 below 2^10, so rounding the exact result to 53 significant bits   *)
(* (ties to even) is exactly what the double operation returns.            *)
(***************************************************************************)
Base == 2^22

Carry(s) ==
  LET t1 == s[2] + (s[1] \div Base)
  IN  <<s[1] % Base, t1 % Base, s[3] + (t1 \div Base)>>

RECURSIVE BitLength(_)
BitLength(n) == IF n = 0 THEN 0 ELSE 1 + BitLength(n \div 2)

MagBits(m) ==
  IF m[3] > 0 THEN 44 + BitLength(m[3])
  ELSE IF m[2] > 0 THEN 22 + BitLength(m[2])
  ELSE BitLength(m[1])

\* The exact magnitude m rounded to 53 significant bits, ties to even.
RoundToDouble(m) ==
  LET drop == MagBits(m) - 53
  IN  IF drop <= 0 THEN m
      ELSE LET unit == 2^drop
               rest == m[1] % unit
               down == <<m[1] - rest, m[2], m[3]>>
               odd  == (m[1] \div unit) % 2 = 1
           IN  IF rest * 2 > unit \/ (rest * 2 = unit /\ odd)
               THEN Carry(<<down[1] + unit, down[2], down[3]>>)
               ELSE down

MagLess(a, b) ==
  \/ a[3] < b[3]
  \/ a[3] = b[3] /\ a[2] < b[2]
  \/ a[3] = b[3] /\ a[2] = b[2] /\ a[1] < b[1]

MagAdd(a, b) == Carry(<<a[1] + b[1], a[2] + b[2], a[3] + b[3]>>)

\* a - b for a >= b.
MagSub(a, b) ==
  LET d1 == a[1] - b[1]
      w1 == IF d1 < 0 THEN 1 ELSE 0
      d2 == a[2] - b[2] - w1
      w2 == IF d2 < 0 THEN 1 ELSE 0
  IN  <<d1 + w1 * Base, d2 + w2 * Base, a[3] - b[3] - w2>>

MagZero == <<0, 0, 0>>

Dbl(neg, mag) == [neg |-> neg /\ mag # MagZero, mag |-> mag]

DblZero == Dbl(FALSE, MagZero)

\* The integer n as a double (n * 2^55 in units of 2^-55: 2^55 = 2^11 * Base^2).
DblOfInt(n) == Dbl(n < 0, <<0, 0, 2048 * (IF n < 0 THEN -n ELSE n)>>)

\* x * q for a double x and an integer q (JavaScript's *).
DblTimesInt(x, q) ==
  LET a == IF q < 0 THEN -q ELSE q
  IN  Dbl(x.neg # (q < 0),
          RoundToDouble(Carry(<<x.mag[1] * a, x.mag[2] * a, x.mag[3] * a>>)))

\* x + y (JavaScript's +).
DblPlus(x, y) ==
  IF x.neg = y.neg THEN Dbl(x.neg, RoundToDouble(MagAdd(x.mag, y.mag)))
  ELSE IF MagLess(x.mag, y.mag) THEN Dbl(y.neg, RoundToDouble(MagSub(y.mag, x.mag)))
  ELSE Dbl(x.neg, RoundToDouble(MagSub(x.mag, y.mag)))

\* x <= y (JavaScript's <=).
DblLeq(x, y) ==
  IF x.neg # y.neg THEN x.neg
  ELSE IF x.neg THEN ~MagLess(x.mag, y.mag)
  ELSE ~MagLess(y.mag, x.mag)

(***************************************************************************)
(* The product catalogue (src/store.js:32-141).  price is in roubles.      *)
(* weight is the double the numeral denotes: 0.5 is exact,                 *)
(* 0.3 = 5404319552844595 * 2^-54, 0.8 = 3602879701896397 * 2^-52 and      *)
(* 0.2 = 3602879701896397 * 2^-54; tenths is the numeral itself, in tenths *)
(* of a kilogram.  An option list the product does not have is <<>>.       *)
(* Option values are transliterated.                                       *)
(***************************************************************************)
products == <<
  [id |-> "m1", price |-> 60000, weight |-> DblOfInt(10), tenths |-> 100,
   options |-> [colour |-> <<"cherny", "krasny">>, size |-> <<"S", "M", "L">>],
   sale |-> FALSE],
  [id |-> "m2", price |-> 45000, weight |-> DblOfInt(12), tenths |-> 120,
   options |-> [colour |-> <<"siniy", "sery">>, size |-> <<"M", "L">>],
   sale |-> TRUE],
  [id |-> "c1", price |-> 30000, weight |-> DblOfInt(8), tenths |-> 80,
   options |-> [colour |-> <<"bely", "zeleny">>, size |-> <<"M", "L">>],
   sale |-> FALSE],
  [id |-> "r1", price |-> 80000, weight |-> DblOfInt(7), tenths |-> 70,
   options |-> [colour |-> <<"cherny", "bely">>, size |-> <<"S", "M", "L">>],
   sale |-> FALSE],
  [id |-> "h1", price |-> 35000, weight |-> DblOfInt(9), tenths |-> 90,
   options |-> [colour |-> <<"serebristy">>, size |-> <<"M", "L">>],
   sale |-> FALSE],
  [id |-> "acc1", price |-> 5000, weight |-> Dbl(FALSE, <<0, 0, 1024>>), tenths |-> 5,
   options |-> [colour |-> <<"cherny", "siniy">>, size |-> <<"M", "L">>],
   sale |-> FALSE],
  [id |-> "acc2", price |-> 1500, weight |-> Dbl(FALSE, <<2516582, 1677721, 614>>), tenths |-> 3,
   options |-> [colour |-> <<"cherny">>, size |-> <<"universalny">>],
   sale |-> FALSE],
  [id |-> "foot1", price |-> 8000, weight |-> Dbl(FALSE, <<2516584, 1677721, 1638>>), tenths |-> 8,
   options |-> [colour |-> <<>>, size |-> <<"38", "39", "40", "41", "42">>],
   sale |-> TRUE],
  [id |-> "cloth1", price |-> 2500, weight |-> Dbl(FALSE, <<1677722, 2516582, 409>>), tenths |-> 2,
   options |-> [colour |-> <<"krasny", "siniy">>, size |-> <<"S", "M", "L">>],
   sale |-> FALSE] >>

ProductIds == {products[i].id : i \in DOMAIN products}

\* findProduct(id): the first product with that id; callers test isProduct first
\* (the code's `if (product)`).
isProduct(id) == id \in ProductIds

findProduct(id) ==
  products[CHOOSE i \in DOMAIN products :
             /\ products[i].id = id
             /\ \A j \in DOMAIN products : products[j].id = id => i <= j]


(***************************************************************************)
(* Persisted records.  A localStorage value is text; what matters to the   *)
(* code is what JSON.parse makes of it:                                    *)
(*   "missing"  no value under the key (getItem returns null)              *)
(*   "invalid"  text that is not JSON (JSON.parse throws)                  *)
(*   "null"     the JSON text null                                         *)
(*   "array"    a JSON array, its elements in `items`                      *)
(*   "object"   a JSON object (the user record), in `user`                 *)
(* An element of the cart array is a line item or, in a record this        *)
(* program did not write, the JSON value null.  options is the list of     *)
(* <<name, value>> members of the options object in insertion order, which *)
(* JSON.stringify and JSON.parse both keep; a line item with an integer    *)
(* quantity is stored and read back unchanged.                             *)
(***************************************************************************)
LineItem(productId, quantity, options) ==
  [json |-> "object", productId |-> productId, quantity |-> quantity,
   options |-> options]

JsonNull == [json |-> "null", productId |-> "", quantity |-> 0, options |-> <<>>]

Stored(kind, items) == [kind |-> kind, items |-> items]

NoUser == [email |-> "", name |-> ""]

StoredUser(kind, user) == [kind |-> kind, user |-> user]

\* JSON.stringify of an options object: its members' names and values in
\* insertion order.
RECURSIVE JSONstringify(_)
JSONstringify(options) ==
  IF options = <<>> THEN <<>>
  ELSE <<options[1][1], options[1][2]>> \o JSONstringify(Tail(options))

(***************************************************************************)
(* What the last operation did: its name, whether it returned or threw,    *)
(* what it did to the record, and for calculateCartTotals its arguments.   *)
(* What a read returned is what the same operator gives in that state.     *)
(***************************************************************************)
Outcome(op, outcome, effect) ==
  [op |-> op, outcome |-> outcome, effect |-> effect,
   shipping |-> "", payment |-> ""]

Returned(op, effect) == Outcome(op, "returned", effect)

Threw(op, effect) == Outcome(op, "threw", effect)

(***************************************************************************)
(* Storage functions (src/store.js:158-229).                               *)
(***************************************************************************)
\* getCart(): the parsed record if it is an array, [] otherwise.
getCart == IF storedCart.kind = "array" THEN storedCart.items ELSE <<>>

\* saveCart(cart)
saveCart(cart) == storedCart' = Stored("array", cart)

\* getCurrentUser(): the parsed record, or null (FALSE here) when it is
\* missing, falsy or not JSON.
getCurrentUser == storedUser.kind = "object"

\* updateCartCount() and renderCart() run after the save and read
\* item.quantity and item.productId of every element: on a page that has the
\* header counter or the cart table they throw on a null element.
RendersThrow(cart, page) == page /\ \E i \in DOMAIN cart : cart[i].json = "null"

\* cart.find(item => item.productId === productId &&
\*                   JSON.stringify(item.options) === JSON.stringify(options)):
\* the index of the first match (0: none), or a TypeError when the scan reaches
\* a null element first.
Matches(item, productId, options) ==
  /\ item.productId = productId
  /\ JSONstringify(item.options) = JSONstringify(options)

Find(cart, productId, options) ==
  LET hits  == {i \in DOMAIN cart : cart[i].json = "object"
                                     /\ Matches(cart[i], productId, options)}
      nulls == {i \in DOMAIN cart : cart[i].json = "null"}
      first(S) == IF S = {} THEN 0 ELSE CHOOSE i \in S : \A j \in S : i <= j
  IN  [threw |-> first(nulls) > 0 /\ (first(hits) = 0 \/ first(nulls) < first(hits)),
       index |-> first(hits)]

\* Array.prototype.splice(start, 1) on a zero-based start: a negative start
\* counts from the end, a start beyond the end removes nothing.
Splice(cart, start) ==
  LET len   == Len(cart)
      from  == IF start < 0 THEN (IF len + start < 0 THEN 0 ELSE len + start)
               ELSE (IF start > len THEN len ELSE start)
      count == IF len - from < 1 THEN len - from ELSE 1
  IN  SubSeq(cart, 1, from) \o SubSeq(cart, from + count + 1, len)

others == <<storedUser, storedSubscribers, subscribed, tabs>>

addToCart(productId, quantity, options, page) ==
  LET cart == getCart
      hit  == Find(cart, productId, options)
      next == IF hit.index > 0
              THEN [cart EXCEPT ![hit.index].quantity = @ + quantity]
              ELSE Append(cart, LineItem(productId, quantity, options))
      how  == IF hit.index > 0 THEN "merged" ELSE "appended"
  IN  /\ IF hit.threw
         THEN /\ UNCHANGED storedCart
              /\ last' = Threw("addToCart", "none")
         ELSE /\ saveCart(next)
              /\ last' = Outcome("addToCart",
                                 IF RendersThrow(next, page) THEN "threw" ELSE "returned",
                                 how)
      /\ UNCHANGED others

\* updateCartItem as it would be if a quantity <= 0 were only stored, the line
\* item staying in the cart.
updateCartItemZeroed(index, quantity, page) ==
  LET cart == getCart
  IN  /\ IF index >= 0 /\ index < Len(cart)
         THEN /\ saveCart([cart EXCEPT ![index + 1].quantity = quantity])
              /\ last' = Outcome("updateCartItem", "returned",
                                 IF quantity <= 0 THEN "removed" ELSE "set")
         ELSE /\ UNCHANGED storedCart
              /\ last' = Returned("updateCartItem", "none")
      /\ UNCHANGED others

updateCartItem(index, quantity, page) ==
  LET cart == getCart
  IN  /\ IF index >= 0 /\ index < Len(cart)
         THEN IF cart[index + 1].json = "null"
              THEN /\ UNCHANGED storedCart
                   /\ last' = Threw("updateCartItem", "none")
              ELSE LET set  == [cart EXCEPT ![index + 1].quantity = quantity]
                       next == IF set[index + 1].quantity <= 0
                               THEN Splice(set, index) ELSE set
                   IN  /\ saveCart(next)
                       /\ last' = Outcome("updateCartItem",
                                          IF RendersThrow(next, page)
                                          THEN "threw" ELSE "returned",
                                          IF quantity <= 0 THEN "removed" ELSE "set")
         ELSE /\ UNCHANGED storedCart
              /\ last' = Returned("updateCartItem", "none")
      /\ UNCHANGED others

removeCartItem(index, page) ==
  LET cart == getCart
      next == Splice(cart, index)
  IN  /\ saveCart(next)
      /\ last' = Outcome("removeCartItem",
                         IF RendersThrow(next, page) THEN "threw" ELSE "returned",
                         IF Len(next) < Len(cart) THEN "removed" ELSE "none")
      /\ UNCHANGED others

\* readCart as it would be if getCart wrote the list it returns back to the
\* record, replacing a missing or malformed one by [].
readCartRepairs ==
  /\ saveCart(getCart)
  /\ last' = Returned("getCart", "none")
  /\ UNCHANGED others

\* getCart() called on its own: what it returns.
readCart ==
  /\ last' = Returned("getCart", "none")
  /\ UNCHANGED <<storedCart, others>>

readCurrentUser ==
  /\ last' = Returned("getCurrentUser", IF getCurrentUser THEN "user" ELSE "null")
  /\ UNCHANGED <<storedCart, others>>

setCurrentUser(user) ==
  /\ storedUser' = StoredUser("object", user)
  /\ last' = Returned("setCurrentUser", "none")
  /\ UNCHANGED <<storedCart, storedSubscribers, subscribed, tabs>>

logOutUser ==
  /\ storedUser' = StoredUser("missing", NoUser)
  /\ last' = Returned("logOutUser", "none")
  /\ UNCHANGED <<storedCart, storedSubscribers, subscribed, tabs>>

\* subscribeEmail as it would be without the list.includes test.
subscribeEmailAgain(email) ==
  LET list == IF storedSubscribers.kind = "array" THEN storedSubscribers.items ELSE <<>>
  IN  /\ subscribed' = subscribed \cup {email}
      /\ IF email # ""
         THEN /\ storedSubscribers' = Stored("array", Append(list, email))
              /\ last' = Returned("subscribeEmail", "added")
         ELSE /\ UNCHANGED storedSubscribers
              /\ last' = Returned("subscribeEmail", "none")
      /\ UNCHANGED <<storedCart, storedUser, tabs>>

\* subscribeEmail(email): JSON.parse(getItem(KEY) || '[]') is outside any try,
\* and list.includes is called on whatever it returned.
subscribeEmail(email) ==
  LET rec  == storedSubscribers
      list == IF rec.kind = "array" THEN rec.items ELSE <<>>
      has  == \E i \in DOMAIN list : list[i] = email
  IN  /\ subscribed' = subscribed \cup {email}
      /\ IF rec.kind = "invalid" \/ (rec.kind = "null" /\ email # "")
         THEN /\ UNCHANGED storedSubscribers
              /\ last' = Threw("subscribeEmail", "none")
         ELSE IF email # "" /\ ~has
         THEN /\ storedSubscribers' = Stored("array", Append(list, email))
              /\ last' = Returned("subscribeEmail", "added")
         ELSE /\ UNCHANGED storedSubscribers
              /\ last' = Returned("subscribeEmail", "none")
      /\ UNCHANGED <<storedCart, storedUser, tabs>>

(***************************************************************************)
(* Totals (src/store.js:248-286).  Money is in 1/40 rouble.                *)
(***************************************************************************)
Roubles(n) == n * 40

\* x * rate, the rate given in percent.
PercentOf(x, rate) == (x * rate) \div 100

\* x * (1 - rate)
LessPercent(x, rate) == x - PercentOf(x, rate)

\* Accumulate as it would be without the `if (product)` test, an id the
\* catalog does not have resolving to the catalog's first product.
RECURSIVE AccumulateUnchecked(_, _)
AccumulateUnchecked(cart, n) ==
  IF n = 0 THEN [subtotal |-> 0, totalWeight |-> DblZero]
  ELSE LET acc     == AccumulateUnchecked(cart, n - 1)
           item    == cart[n]
           product == IF isProduct(item.productId)
                      THEN findProduct(item.productId) ELSE products[1]
           itemPrice == IF product.sale
                        THEN LessPercent(Roubles(product.price), SALE_DISCOUNT)
                        ELSE Roubles(product.price)
       IN  [subtotal    |-> acc.subtotal + itemPrice * item.quantity,
            totalWeight |-> DblPlus(acc.totalWeight,
                                    DblTimesInt(product.weight, item.quantity))]

\* cart.forEach over the first n items: subtotal and totalWeight so far.
RECURSIVE Accumulate(_, _)
Accumulate(cart, n) ==
  IF n = 0 THEN [subtotal |-> 0, totalWeight |-> DblZero]
  ELSE LET acc  == Accumulate(cart, n - 1)
           item == cart[n]
       IN  IF isProduct(item.productId)
           THEN LET product   == findProduct(item.productId)
                    itemPrice == IF product.sale
                                 THEN LessPercent(Roubles(product.price), SALE_DISCOUNT)
                                 ELSE Roubles(product.price)
                IN  [subtotal    |-> acc.subtotal + itemPrice * item.quantity,
                     totalWeight |-> DblPlus(acc.totalWeight,
                                             DblTimesInt(product.weight, item.quantity))]
           ELSE acc

\* userDiscount as it would be if the loyalty discount did not depend on a user
\* being logged in.
userDiscountForAll(subtotal) == LessPercent(subtotal, USER_DISCOUNT)

userDiscount(subtotal) ==
  IF getCurrentUser THEN LessPercent(subtotal, USER_DISCOUNT) ELSE subtotal

shippingCostOf(selectedShipping, subtotal, totalWeight) ==
  IF selectedShipping = "delivery"
  THEN (IF subtotal > Roubles(SHIPPING_FREE_THRESHOLD)
        THEN 0 ELSE Roubles(SHIPPING_MEDIUM_COST))
  ELSE IF selectedShipping = "mail"
  THEN (IF DblLeq(totalWeight, DblOfInt(SHIPPING_SMALL_LIMIT))
        THEN Roubles(SHIPPING_MEDIUM_COST) ELSE Roubles(SHIPPING_LARGE_COST))
  ELSE 0

\* codSurchargeOf as it would be if the surcharge did not depend on the
\* shipping method.
codSurchargeAnyShipping(selectedShipping, selectedPayment, subtotal) ==
  IF selectedPayment = "cod" THEN PercentOf(subtotal, COD_SURCHARGE) ELSE 0

codSurchargeOf(selectedShipping, selectedPayment, subtotal) ==
  IF selectedShipping = "mail" /\ selectedPayment = "cod"
  THEN PercentOf(subtotal, COD_SURCHARGE) ELSE 0

calculateCartTotals(selectedShipping, selectedPayment) ==
  LET cart         == getCart
      acc          == Accumulate(cart, Len(cart))
      subtotal     == userDiscount(acc.subtotal)
      shippingCost == shippingCostOf(selectedShipping, subtotal, acc.totalWeight)
      codSurcharge == codSurchargeOf(selectedShipping, selectedPayment, subtotal)
  IN  [subtotal |-> subtotal, shippingCost |-> shippingCost,
       codSurcharge |-> codSurcharge,
       total |-> subtotal + shippingCost + codSurcharge]

\* item.productId of a null element is a TypeError.
TotalsThrow == \E i \in DOMAIN getCart : getCart[i].json = "null"

\* calculateCartTotals(selectedShipping, selectedPayment) called: what it returns.
readTotals(selectedShipping, selectedPayment) ==
  /\ last' = IF TotalsThrow THEN Threw("calculateCartTotals", "none")
             ELSE [Returned("calculateCartTotals", "none")
                   EXCEPT !.shipping = selectedShipping,
                          !.payment = selectedPayment]
  /\ UNCHANGED <<storedCart, others>>

(***************************************************************************)
(* Event handlers of the pages.                                            *)
(***************************************************************************)
\* parseInt(value, 10) || 1 of the quantity field (src/store.js:566): NaN
\* (entered.number = FALSE) and 0 become 1.
parseQty(entered) ==
  IF entered.number /\ entered.value # 0 THEN entered.value ELSE 1

\* The options object the product page builds (src/store.js:567-571): colour
\* first, then size, each only if the product has that select.
chosenOptions(product, colour, size) ==
  (IF product.options.colour # <<>> THEN << <<"colour", colour>> >> ELSE <<>>)
  \o (IF product.options.size # <<>> THEN << <<"size", size>> >> ELSE <<>>)

Range(list) == {list[i] : i \in DOMAIN list}

\* The values the model picks in a select: those of `picks` the list offers,
\* or just "" for a select the page does not have (its value is not read).
Offered(list, picks) == IF list = <<>> THEN {""} ELSE Range(list) \cap picks

\* The "add to cart" button of the product page (src/store.js:565-573).
addToCartClick(product, entered, colour, size) ==
  addToCart(product.id, parseQty(entered), chosenOptions(product, colour, size), TRUE)

\* checkoutSubmit as it would be if confirming an order also ended the user's
\* session.
checkoutSubmitLogsOut ==
  /\ Len(getCart) > 0
  /\ ~TotalsThrow
  /\ saveCart(<<>>)
  /\ storedUser' = StoredUser("missing", NoUser)
  /\ last' = Returned("checkout", "cleared")
  /\ UNCHANGED <<storedSubscribers, subscribed, tabs>>

\* The checkout form's submit (src/store.js:719-725).  renderCheckout attaches
\* it only after it found the cart non-empty and rendered its totals.
checkoutSubmit ==
  /\ Len(getCart) > 0
  /\ ~TotalsThrow
  /\ saveCart(<<>>)
  /\ last' = Returned("checkout", "cleared")
  /\ UNCHANGED others

(***************************************************************************)
(* Two tabs on the same localStorage.  A tab runs one handler at a time,   *)
(* to completion; the storage is shared, so between the getItem of a       *)
(* mutation's getCart() and the setItem of its saveCart() the other tab's  *)
(* getItem or setItem can take place.  A mutation is therefore two steps   *)
(* here: the read, which keeps the parsed cart in the tab, and the write.  *)
(***************************************************************************)
Tabs == {"A", "B"}

Call(op, productId, quantity, options, index) ==
  [op |-> op, productId |-> productId, quantity |-> quantity,
   options |-> options, index |-> index]

NoCall == Call("", "", 0, <<>>, 0)

Idle == [pc |-> "idle", call |-> NoCall, cart |-> <<>>]

\* Whether the mutation reaches its saveCart: updateCartItem does only for an
\* index within the cart it read (src/store.js:186).
Saves(call, cart) ==
  call.op = "updateCartItem" => (call.index >= 0 /\ call.index < Len(cart))

\* The array the mutation hands to saveCart, from the cart it read
\* (src/store.js:173-178, 187-190, 199).
Mutated(call, cart) ==
  IF call.op = "addToCart"
  THEN LET hit == Find(cart, call.productId, call.options)
       IN  IF hit.index > 0
           THEN [cart EXCEPT ![hit.index].quantity = @ + call.quantity]
           ELSE Append(cart, LineItem(call.productId, call.quantity, call.options))
  ELSE IF call.op = "updateCartItem"
  THEN LET set == [cart EXCEPT ![call.index + 1].quantity = call.quantity]
       IN  IF set[call.index + 1].quantity <= 0 THEN Splice(set, call.index) ELSE set
  ELSE Splice(cart, call.index)

\* const cart = getCart() of a mutation in tab t.
tabGetCart(t, call) ==
  /\ tabs[t].pc = "idle"
  /\ tabs' = [tabs EXCEPT ![t] = [pc |-> "read", call |-> call, cart |-> getCart]]
  /\ UNCHANGED <<storedCart, storedUser, storedSubscribers, subscribed, last>>

\* tabSaveCart as it would be if the write were guarded: the mutation applied
\* to the cart the record holds at the time of the write.
tabSaveCartGuarded(t) ==
  /\ tabs[t].pc = "read"
  /\ LET me == tabs[t]
     IN  /\ IF Saves(me.call, getCart)
            THEN saveCart(Mutated(me.call, getCart))
            ELSE UNCHANGED storedCart
         /\ last' = Returned(me.call.op, "none")
  /\ tabs' = [tabs EXCEPT ![t] = Idle]
  /\ UNCHANGED <<storedUser, storedSubscribers, subscribed>>

\* The rest of the mutation in tab t: the change to the cart it read and
\* saveCart(cart).  The effect noted is "overwrote" when the record no longer
\* held the cart the tab had read.
tabSaveCart(t) ==
  /\ tabs[t].pc = "read"
  /\ LET me == tabs[t]
     IN  IF Saves(me.call, me.cart)
         THEN /\ saveCart(Mutated(me.call, me.cart))
              /\ last' = Returned(me.call.op,
                                  IF me.cart # getCart THEN "overwrote" ELSE "saved")
         ELSE /\ UNCHANGED storedCart
              /\ last' = Returned(me.call.op, "none")
  /\ tabs' = [tabs EXCEPT ![t] = Idle]
  /\ UNCHANGED <<storedUser, storedSubscribers, subscribed>>

(***************************************************************************)
(* The inputs a specification draws from, and the part of the state space  *)
(* it explores: carts of at most MaxCart elements whose quantities lie in  *)
(* `range`.                                                                *)
(***************************************************************************)
Number(n) == [number |-> TRUE, value |-> n]

NaN == [number |-> FALSE, value |-> 0]

ColourSize == << <<"colour", "cherny">>, <<"size", "M">> >>

SizeColour == << <<"size", "M">>, <<"colour", "cherny">> >>

Buyer == [email |-> "a@shop.ru", name |-> "Anna"]

Explored(rec, range) ==
  /\ Len(rec.items) <= MaxCart
  /\ \A i \in DOMAIN rec.items : rec.items[i].quantity \in range

\* The shop as its pages and exported functions drive it, every quantity
\* added being positive; quantities below 1, were one ever stored, are within
\* the part explored.
StoreInputs ==
  [calls    |-> {<<"acc1", q, o>> : q \in {1, 2}, o \in {ColourSize, SizeColour}}
                \cup {<<"gone", 1, <<>> >>},
   clickIds |-> {"acc1", "foot1"},
   entered  |-> {Number(2), NaN},
   picks    |-> {"cherny", "M", "38"},
   range    |-> -1..MaxQty,
   indexes  |-> -1..MaxCart,
   sets     |-> {-1, 0, 1, MaxQty},
   pages    |-> {TRUE},
   emails   |-> {"a@shop.ru"},
   users    |-> {Buyer},
   shipping |-> {"delivery", "mail", ""},
   payment  |-> {"card", "cod"}]

\* The same with any integer quantity, on the light products.
AnyInputs ==
  [calls    |-> {<<id, q, <<>> >> : id \in {"acc2", "foot1", "cloth1"}, q \in {-1, 1, 3}},
   clickIds |-> {"acc2"},
   entered  |-> {Number(-1), Number(2)},
   picks    |-> {"cherny", "universalny"},
   range    |-> -1..(MaxQty + 1),
   indexes  |-> -1..MaxCart,
   sets     |-> {0, 1},
   pages    |-> {TRUE},
   emails   |-> {"a@shop.ru"},
   users    |-> {Buyer},
   shipping |-> {"delivery", "mail", ""},
   payment  |-> {"card", "cod"}]

\* The newsletter form with several addresses, beside a small cart.
NewsletterInputs ==
  [calls    |-> {<<"acc1", 1, ColourSize>>},
   clickIds |-> {"foot1"},
   entered  |-> {NaN},
   picks    |-> {"38"},
   range    |-> 0..1,
   indexes  |-> {0},
   sets     |-> {0, 1},
   pages    |-> {TRUE},
   emails   |-> {"", "a@shop.ru", "b@shop.ru", "A@shop.ru"},
   users    |-> {Buyer},
   shipping |-> {"mail"},
   payment  |-> {"cod"}]

\* Pages with and without the header counter, on records found in storage.
StoredInputs ==
  [calls    |-> {<<"acc1", 1, ColourSize>>},
   clickIds |-> {"foot1"},
   entered  |-> {NaN},
   picks    |-> {"38"},
   range    |-> 0..MaxQty,
   indexes  |-> -1..MaxCart,
   sets     |-> {0, 2},
   pages    |-> BOOLEAN,
   emails   |-> {"", "a@shop.ru"},
   users    |-> {Buyer},
   shipping |-> {"mail"},
   payment  |-> {"cod"}]

\* The mutations the two tabs make.
TabCalls ==
  {Call("addToCart", "acc1", 1, ColourSize, 0),
   Call("addToCart", "foot1", 1, << <<"size", "38">> >>, 0),
   Call("updateCartItem", "", MaxQty, <<>>, 0),
   Call("updateCartItem", "", 0, <<>>, 1),
   Call("removeCartItem", "", 0, <<>>, 0)}

\* One tab: every handler runs from its read to its write in one step.
Step(in) ==
  \/ \E c \in in.calls, page \in in.pages :
       /\ addToCart(c[1], c[2], c[3], page)
       /\ Explored(storedCart', in.range)
  \/ \E id \in in.clickIds \cap ProductIds :
       \E e \in in.entered,
          colour \in Offered(findProduct(id).options.colour, in.picks),
          size \in Offered(findProduct(id).options.size, in.picks) :
         /\ addToCartClick(findProduct(id), e, colour, size)
         /\ Explored(storedCart', in.range)
  \/ \E i \in in.indexes, q \in in.sets, page \in in.pages : updateCartItem(i, q, page)
  \/ \E i \in in.indexes, page \in in.pages : removeCartItem(i, page)
  \/ checkoutSubmit
  \/ readCart
  \/ readCurrentUser
  \/ \E u \in in.users : setCurrentUser(u)
  \/ logOutUser
  \/ \E e \in in.emails : subscribeEmail(e)
  \/ \E s \in in.shipping, p \in in.payment : readTotals(s, p)

\* A first visit: nothing is stored yet.
Init ==
  /\ storedCart = Stored("missing", <<>>)
  /\ storedUser = StoredUser("missing", NoUser)
  /\ storedSubscribers = Stored("missing", <<>>)
  /\ subscribed = {}
  /\ last = Returned("initPage", "none")
  /\ tabs = [t \in Tabs |-> Idle]

Next == Step(StoreInputs)

Spec == Init /\ [][Next]_vars

NextAny == Step(AnyInputs)

SpecAny == Init /\ [][NextAny]_vars

NextNewsletter == Step(NewsletterInputs)

SpecNewsletter == Init /\ [][NextNewsletter]_vars

\* A later visit: the three records hold whatever an earlier page, another
\* script or the user left under the keys.
StoredItem == LineItem("acc1", 1, ColourSize)

InitStored ==
  /\ storedCart \in {Stored("missing", <<>>), Stored("invalid", <<>>),
                     Stored("null", <<>>), Stored("array", <<>>),
                     Stored("array", <<StoredItem>>), Stored("array", <<JsonNull>>),
                     Stored("array", <<StoredItem, JsonNull>>)}
  /\ storedUser \in {StoredUser("missing", NoUser), StoredUser("invalid", NoUser),
                     StoredUser("null", NoUser), StoredUser("object", Buyer)}
  /\ storedSubscribers \in {Stored("missing", <<>>), Stored("invalid", <<>>),
                            Stored("null", <<>>), Stored("array", <<>>),
                            Stored("array", <<"a@shop.ru">>)}
  /\ subscribed = {}
  /\ last = Returned("initPage", "none")
  /\ tabs = [t \in Tabs |-> Idle]

NextStored == Step(StoredInputs)

SpecStored == InitStored /\ [][NextStored]_vars

\* Two tabs, each making cart mutations whose read and write are separate
\* steps, on carts of at most MaxCart line items of at most MaxQty units.
NextTabs ==
  \/ \E t \in Tabs, c \in TabCalls :
       /\ tabGetCart(t, c)
       /\ Saves(c, getCart) =>
            Explored(Stored("array", Mutated(c, getCart)), 1..MaxQty)
  \/ \E t \in Tabs : tabSaveCart(t)

SpecTabs == Init /\ [][NextTabs]_vars

(***************************************************************************)
(* Properties of the cart operations.                                      *)
(***************************************************************************)
\* Two options objects are structurally equal when they map the same names to
\* the same values.
SameOptions(a, b) == Range(a) = Range(b)

\* The sequence s without its k-th element.
Without(s, k) == [j \in 1..(Len(s) - 1) |-> IF j < k THEN s[j] ELSE s[j + 1]]

\* The line items of cart that addToCart(productId, _, options) is to merge into.
SameLine(cart, productId, options) ==
  {i \in DOMAIN cart : /\ cart[i].productId = productId
                       /\ SameOptions(cart[i].options, options)}

\* C1: addToCart(productId, quantity, options) on a cart that holds a line item
\* with the same productId and structurally equal options keeps the cart's
\* length and order and adds `quantity` to that item only; on any other cart it
\* appends the one line item {productId, quantity, options}.
C1_AddMergesOrAppends ==
  [][\A c \in StoreInputs.calls :
       addToCart(c[1], c[2], c[3], TRUE) =>
         LET same == SameLine(getCart, c[1], c[3])
         IN  IF same # {}
             THEN \E i \in same :
                    getCart' = [getCart EXCEPT ![i].quantity = @ + c[2]]
             ELSE getCart' = Append(getCart, LineItem(c[1], c[2], c[3]))]_vars

\* C2: removeCartItem(index) with index < 0 or index >= the cart's length
\* leaves the persisted cart as it was.
C2_RemoveOutOfRangeKeepsCart ==
  [][\A i \in StoreInputs.indexes :
       (i < 0 \/ i >= Len(getCart)) /\ removeCartItem(i, TRUE) =>
         getCart' = getCart]_vars

\* C3: updateCartItem(index, quantity) with 0 <= index < length removes that
\* line item when quantity <= 0, every other item keeping its content and
\* place in the order, and only sets that item's quantity when quantity > 0.
C3_UpdateRemovesOrSets ==
  [][\A i \in StoreInputs.indexes, q \in StoreInputs.sets :
       (0 <= i /\ i < Len(getCart)) /\ updateCartItem(i, q, TRUE) =>
         getCart' = IF q <= 0 THEN Without(getCart, i + 1)
                    ELSE [getCart EXCEPT ![i + 1].quantity = q]]_vars

\* updateCartItem took a line item out of a cart that held another one.
C3_Witness ==
  /\ last.op = "updateCartItem"
  /\ last.effect = "removed"
  /\ Len(getCart) = MaxCart - 1
  /\ \A i \in DOMAIN getCart : getCart[i].quantity > 0

(***************************************************************************)
(* Properties of reads on records found in storage.                        *)
(***************************************************************************)
\* C4: no operation ends in an error, whatever the three records hold.
C4_NoOperationThrows == last.outcome # "threw"

\* A cart record this program could have written: an array of line items.
WellFormedCart(rec) ==
  /\ rec.kind = "array"
  /\ \A i \in DOMAIN rec.items : rec.items[i].json = "object"

\* C5: getCart() returns the stored list when the record is a well-formed cart
\* and the empty sequence whenever it is missing or malformed.
C5_GetCartEmptyUnlessWellFormed ==
  last.op = "getCart" =>
    getCart = IF WellFormedCart(storedCart) THEN storedCart.items ELSE <<>>

(***************************************************************************)
(* Properties of the totals.                                               *)
(***************************************************************************)
ShippingMethods == {"delivery", "mail", ""}

PaymentMethods == {"card", "cod", ""}

\* The weight of the cart's known products in tenths of a kilogram, exactly.
RECURSIVE TotalTenths(_)
TotalTenths(cart) ==
  IF cart = <<>> THEN 0
  ELSE (IF isProduct(Head(cart).productId)
        THEN findProduct(Head(cart).productId).tenths * Head(cart).quantity
        ELSE 0) + TotalTenths(Tail(cart))

\* C6: shippingCost is 0 for 'delivery' when the subtotal is above 7000 and 300
\* otherwise, 300 for 'mail' when the cart weighs at most 3 kg and 500
\* otherwise, and 0 for any other method.
C6_ShippingTiers ==
  \A p \in PaymentMethods :
    /\ calculateCartTotals("delivery", p).shippingCost =
         IF calculateCartTotals("delivery", p).subtotal > Roubles(7000)
         THEN 0 ELSE Roubles(300)
    /\ calculateCartTotals("mail", p).shippingCost =
         IF TotalTenths(getCart) <= 30 THEN Roubles(300) ELSE Roubles(500)
    /\ calculateCartTotals("", p).shippingCost = 0

\* C7: codSurcharge is 5% of the subtotal (a twentieth) when shipping is 'mail'
\* and payment is 'cod', and 0 for every other combination.
C7_CodSurchargeOnlyMailCod ==
  \A s \in ShippingMethods, p \in PaymentMethods :
    calculateCartTotals(s, p).codSurcharge * 20 =
      IF s = "mail" /\ p = "cod" THEN calculateCartTotals(s, p).subtotal ELSE 0

\* calculateCartTotals('mail', 'cod') returned a surcharge of 500 on a subtotal
\* of 10000.
C7_Witness ==
  /\ last.op = "calculateCartTotals"
  /\ last.shipping = "mail" /\ last.payment = "cod"
  /\ calculateCartTotals("mail", "cod").subtotal = Roubles(10000)
  /\ calculateCartTotals("mail", "cod").codSurcharge = Roubles(500)

\* price * S * L of one unit, in 1/40 rouble, S and L in percent.
UnitPrice(product, loggedIn) ==
  (product.price * (IF product.sale THEN 95 ELSE 100)
                 * (IF loggedIn THEN 98 ELSE 100)) \div 250

RECURSIVE SumOfUnits(_, _)
SumOfUnits(cart, loggedIn) ==
  IF cart = <<>> THEN 0
  ELSE (IF isProduct(Head(cart).productId)
        THEN UnitPrice(findProduct(Head(cart).productId), loggedIn) * Head(cart).quantity
        ELSE 0) + SumOfUnits(Tail(cart), loggedIn)

\* C8: the subtotal is the sum over the items with a known product of
\* price * S * quantity, times L, with S = 0.95 for a sale product and L = 0.98
\* for a logged-in user: the two discounts multiply (931 per 1000, not 930).
\* With no shipping method the total is the subtotal.
C8_DiscountsMultiply ==
  /\ \A s \in ShippingMethods, p \in PaymentMethods :
       calculateCartTotals(s, p).subtotal = SumOfUnits(getCart, getCurrentUser)
  /\ \A p \in PaymentMethods :
       calculateCartTotals("", p).total = calculateCartTotals("", p).subtotal
  /\ \A i \in DOMAIN products :
       products[i].sale =>
         UnitPrice(products[i], TRUE) * 1000 = Roubles(products[i].price) * 931

\* calculateCartTotals returned, for a logged-in user whose cart holds a sale
\* product only, 931/1000 of the price per unit.
C8_Witness ==
  /\ last.op = "calculateCartTotals"
  /\ getCurrentUser
  /\ Len(getCart) = 1
  /\ getCart[1].productId = "foot1"
  /\ calculateCartTotals(last.shipping, last.payment).subtotal * 1000
       = Roubles(8000) * 931 * getCart[1].quantity

\* C9: subtotal, shippingCost, codSurcharge and total are never negative, and
\* total = subtotal + shippingCost + codSurcharge.
C9_TotalsNonNegative ==
  \A s \in ShippingMethods, p \in PaymentMethods :
    LET t == calculateCartTotals(s, p)
    IN  /\ t.subtotal >= 0 /\ t.shippingCost >= 0
        /\ t.codSurcharge >= 0 /\ t.total >= 0
        /\ t.total = t.subtotal + t.shippingCost + t.codSurcharge

(***************************************************************************)
(* Properties of the subscriber list.                                      *)
(***************************************************************************)
\* C10: the subscriber list holds every non-empty email passed to
\* subscribeEmail so far, each once, and nothing else.
C10_SubscribersOnceEach ==
  LET list == storedSubscribers.items
  IN  /\ Range(list) = subscribed \ {""}
      /\ Cardinality(Range(list)) = Len(list)

\* subscribeEmail was called with an email already in the list, or with the
\* empty one, after both, and the list holds two others.
C10_Witness ==
  /\ last.op = "subscribeEmail"
  /\ last.effect = "none"
  /\ "" \in subscribed
  /\ Len(storedSubscribers.items) = 3

(***************************************************************************)
(* Properties of checkout and of the cart as a whole.                      *)
(***************************************************************************)
\* C11: confirming the checkout leaves the persisted cart empty, whatever it
\* held, and leaves the user record and the subscriber record as they were.
C11_CheckoutClearsCartOnly ==
  [][last'.op = "checkout" =>
       /\ getCart' = <<>>
       /\ storedUser' = storedUser
       /\ storedSubscribers' = storedSubscribers]_vars

\* An order was confirmed by a logged-in user with a subscriber on the list.
C11_Witness ==
  /\ last.op = "checkout"
  /\ getCart = <<>>
  /\ getCurrentUser
  /\ storedSubscribers.items # <<>>

\* C12: from an empty cart, whatever addToCart calls with a quantity >= 1,
\* updateCartItem calls with any index and quantity, removeCartItem calls and
\* checkout confirmations were made, every line item of the persisted cart has
\* a quantity >= 1.
C12_QuantitiesPositive ==
  \A i \in DOMAIN storedCart.items :
    /\ storedCart.items[i].quantity \in Int
    /\ storedCart.items[i].quantity >= 1

\* updateCartItem was called with a quantity <= 0 and the cart that remains
\* holds a line item of MaxQty units.
C12_Witness ==
  /\ last.op = "updateCartItem"
  /\ last.effect = "removed"
  /\ \E i \in DOMAIN storedCart.items : storedCart.items[i].quantity = MaxQty

Mutations == {"addToCart", "updateCartItem", "removeCartItem", "checkout"}

Reads == {"getCart", "calculateCartTotals", "getCurrentUser"}

\* C13: a getCart, calculateCartTotals or getCurrentUser call writes none of
\* the three records, and getCart returns the same sequence before and after
\* every step that is not an addToCart, updateCartItem, removeCartItem or
\* checkout, so two getCart calls with no mutation between them return the same.
C13_GetCartReadOnly ==
  [][/\ last'.op \in Reads =>
          /\ storedCart' = storedCart
          /\ storedUser' = storedUser
          /\ storedSubscribers' = storedSubscribers
     /\ last'.op \notin Mutations => getCart' = getCart]_vars

\* getCart was called on a stored cart of two elements or more.
C13_Witness ==
  /\ last.op = "getCart"
  /\ last.outcome = "returned"
  /\ Len(getCart) >= 2

\* The cart with every line item deleted whose productId is not in the catalog.
Live(cart) == SelectSeq(cart, LAMBDA item : isProduct(item.productId))

\* What calculateCartTotals gives for a cart other than the persisted one, the
\* login state being the current one.
TotalsOf(cart, selectedShipping, selectedPayment) ==
  LET acc          == Accumulate(cart, Len(cart))
      subtotal     == userDiscount(acc.subtotal)
      shippingCost == shippingCostOf(selectedShipping, subtotal, acc.totalWeight)
      codSurcharge == codSurchargeOf(selectedShipping, selectedPayment, subtotal)
  IN  [subtotal |-> subtotal, shippingCost |-> shippingCost,
       codSurcharge |-> codSurcharge,
       total |-> subtotal + shippingCost + codSurcharge]

\* C14: a calculateCartTotals call returns, whatever shipping and payment
\* method it is given and logged in or not, what it returns for the same cart
\* with the line items of unknown products deleted, and it leaves those items
\* in the persisted cart.
C14_StaleItemsSkipped ==
  [][last'.op = "calculateCartTotals" /\ last'.outcome = "returned" =>
       /\ storedCart' = storedCart
       /\ calculateCartTotals(last'.shipping, last'.payment)
            = TotalsOf(Live(getCart), last'.shipping, last'.payment)]_vars

\* calculateCartTotals returned a positive subtotal for a cart that holds a
\* line item of an unknown product beside one of a known product.
C14_Witness ==
  /\ last.op = "calculateCartTotals"
  /\ \E i \in DOMAIN getCart : ~isProduct(getCart[i].productId)
  /\ \E i \in DOMAIN getCart : isProduct(getCart[i].productId)
  /\ calculateCartTotals(last.shipping, last.payment).subtotal > 0

(***************************************************************************)
(* Properties of two tabs on the same storage.                             *)
(***************************************************************************)
\* C15: a cart mutation is a read of the whole record followed by a write of
\* the whole record, with nothing guarding the write: when a tab completes a
\* mutation the persisted cart is exactly the cart that tab read with its own
\* change applied, whatever the other tab wrote to the record in between, so
\* the other tab's change is lost; a mutation that does not reach its save
\* leaves the record as it is.
C15_LastWriterWins ==
  [][\A t \in Tabs :
       tabs[t].pc = "read" /\ tabs'[t].pc = "idle" =>
         IF Saves(tabs[t].call, tabs[t].cart)
         THEN getCart' = Mutated(tabs[t].call, tabs[t].cart)
         ELSE storedCart' = storedCart]_vars

\* Both tabs are through their mutations; the last to write was an addToCart
\* that had read an empty cart and replaced a record the other tab had
\* written since: the persisted cart holds the one unit it added and nothing
\* of what the other tab wrote.
C15_Witness ==
  /\ \A t \in Tabs : tabs[t].pc = "idle"
  /\ last.op = "addToCart"
  /\ last.effect = "overwrote"
  /\ Len(getCart) = 1
  /\ getCart[1].quantity = 1

(***************************************************************************)
(* Uniqueness of the line items.                                           *)
(***************************************************************************)
\* C16: from an empty cart, whatever addToCart, updateCartItem, removeCartItem
\* and checkout calls one tab made, no two line items of the persisted cart
\* have the same productId and structurally equal options.
C16_LineItemsUnique ==
  \A i, j \in DOMAIN storedCart.items :
    (/\ storedCart.items[i].productId = storedCart.items[j].productId
     /\ SameOptions(storedCart.items[i].options, storedCart.items[j].options))
      => i = j

=============================================================================
